---- MODULE Spec2Model ----
(***************************************************************************)
(* Model of map_fds (src/src/mapping.rs): relocation of file descriptors   *)
(* of the calling process according to a list of FdMapping values.         *)
(*                                                                         *)
(* The descriptor table of the process is the pair (fdt, cloexec).  An     *)
(* open descriptor refers to an open file description, identified here by  *)
(* a small integer; NoFile marks a closed slot.  At the time of the call   *)
(* descriptor d, when open, refers to description d, so that descriptions  *)
(* of distinct descriptors are distinguishable.                            *)
(***************************************************************************)
EXTENDS Integers, Sequences, FiniteSets, TLC

\* ---------------------------------------------------------------- bounds
\* longest mapping sequence handed to map_fds
MaxLen == 3
\* largest valid descriptor number a mapping may name
MaxFd == 2
\* number of slots of the descriptor table above MaxFd (room for temporaries)
Room == 3

\* size of the descriptor table (RLIMIT_NOFILE of the model)
Limit == MaxFd + 1 + Room
Slots == 0 .. (Limit - 1)
NoFile == -1

\* descriptor values a caller may put in a mapping.  Descriptors are small
\* non-negative integers, indices into the descriptor table; the `+ 1` of
\* line 43 overflows i32 only for i32::MAX, which is no descriptor.
NamedFds == 0 .. MaxFd

FdMapping == [old_fd : NamedFds, new_fd : NamedFds]

RECURSIVE SeqsUpTo(_, _)
SeqsUpTo(S, n) ==
    IF n = 0 THEN {<<>>}
    ELSE LET shorter == SeqsUpTo(S, n - 1)
         IN  shorter \cup {Append(s, x) : s \in {t \in shorter : Len(t) = n - 1}, x \in S}

VARIABLES
    mappings,       \* the argument of map_fds
    fdt,            \* descriptor table: slot -> open file description or NoFile
    cloexec,        \* descriptor table: slot -> FD_CLOEXEC flag
    fdt0,           \* fdt at the time of the call
    cloexec0,       \* cloexec at the time of the call
    pc,             \* position in map_fds
    first_safe_fd,  \* local of map_fds
    new_fds,        \* local of map_fds
    rewritten,      \* the Vec being collected by phase 2 (the shadowing `mappings`)
    i,              \* mappings the loop of phase 3 has taken from the new Vec
    result,         \* what map_fds returned
    calls           \* the primitive calls made so far, in order

vars == <<mappings, fdt, cloexec, fdt0, cloexec0, pc, first_safe_fd, new_fds,
          rewritten, i, result, calls>>

\* -------------------------------------------------------------- helpers
IsOpen(t, fd) == fd \in DOMAIN t /\ t[fd] # NoFile

max(a, b) == IF a >= b THEN a ELSE b

RECURSIVE IterMax(_)
\* Iterator::max over a non-empty sequence of integers
IterMax(s) ==
    IF Len(s) = 1 THEN s[1] ELSE max(s[1], IterMax(Tail(s)))

\* only the sources are looked at
MaxNamedOldOnly(ms) == IterMax([k \in 1 .. Len(ms) |-> ms[k].old_fd])

\* the largest descriptor named by the slice (lines 38-42)
MaxNamed(ms) == IterMax([k \in 1 .. Len(ms) |-> max(ms[k].old_fd, ms[k].new_fd)])

\* only the first element is compared
ContainsFirst(s, fd) == Len(s) > 0 /\ s[1] = fd

\* `new_fds.contains(&fd)`
Contains(s, fd) == \E k \in 1 .. Len(s) : s[k] = fd

\* fcntl(fd, F_DUPFD_CLOEXEC(min)): the errno, or "" on success
DupFdErrno(t, fd, min) ==
    IF ~IsOpen(t, fd) THEN "EBADF"
    ELSE IF min < 0 \/ min >= Limit THEN "EINVAL"
    ELSE IF \A s \in Slots : s >= min => t[s] # NoFile THEN "EMFILE"
    ELSE ""

\* the threshold itself is taken, free or not
DupFdSlotBlind(t, min) == min

\* the descriptor F_DUPFD_CLOEXEC returns: the lowest free slot at or above min
DupFdSlot(t, min) ==
    CHOOSE s \in Slots : /\ s >= min
                         /\ t[s] = NoFile
                         /\ \A u \in Slots : (u >= min /\ t[u] = NoFile) => s <= u

\* F_DUPFD in place of F_DUPFD_CLOEXEC: the temporary survives exec
DupFdPlainFlag == FALSE

\* the FD_CLOEXEC flag F_DUPFD_CLOEXEC gives the new descriptor
DupFdFlag == TRUE

\* dup2(old, new): the errno, or "" on success
Dup2Errno(t, old, new) ==
    IF new < 0 \/ new >= Limit THEN "EBADF"
    ELSE IF ~IsOpen(t, old) THEN "EBADF"
    ELSE ""

\* a move in place of a duplication: the source is closed
Dup2Move(t, old, new) == [t EXCEPT ![new] = t[old], ![old] = NoFile]

\* dup2(old, new) on the table: new refers to what old refers to
Dup2Table(t, old, new) == [t EXCEPT ![new] = t[old]]

\* dup2(old, new) on the flags: FD_CLOEXEC of new is cleared, except that
\* dup2(x, x) does nothing
Dup2Flags(c, old, new) == IF old = new THEN c ELSE [c EXCEPT ![new] = FALSE]

\* the errno is dropped: every error becomes ErrorKind::Other
nix_to_io_error_other(error) == <<"Other", error[2]>>

\* nix_to_io_error: nix::Error::Sys(errno) becomes the raw OS error
nix_to_io_error(error) ==
    IF error[1] = "Sys" THEN <<"Os", error[2]>> ELSE <<"Other", error[2]>>

\* the destination is looked up in place of the source
AtRiskNewFd(fds, mapping) == Contains(fds, mapping.new_fd)

\* no conflict check at all: every mapping is applied from its original source
AtRiskNever(fds, mapping) == FALSE

\* a mapping onto itself is not taken for a conflict
AtRiskNotSelf(fds, mapping) ==
    Contains(fds, mapping.old_fd) /\ mapping.old_fd # mapping.new_fd

\* `new_fds.contains(&mapping.old_fd)`: the mapping's source is duplicated first
AtRisk(fds, mapping) == Contains(fds, mapping.old_fd)

\* ------------------------------------------- map_fds as a function of its input
\* lines 48-62 on the slice ms from position k on: the table and the new Vec
\* after the collect, ok = FALSE when a duplication failed
RECURSIVE CollectFrom(_, _, _, _, _)
CollectFrom(ms, fds, safe, k, st) ==
    IF ~st.ok \/ k > Len(ms) THEN st
    ELSE IF AtRisk(fds, ms[k])
         THEN IF DupFdErrno(st.t, ms[k].old_fd, safe) # ""
              THEN [st EXCEPT !.ok = FALSE]
              ELSE LET temporary_fd == DupFdSlot(st.t, safe)
                   IN  CollectFrom(ms, fds, safe, k + 1,
                           [ok |-> TRUE,
                            t  |-> [st.t EXCEPT ![temporary_fd] = st.t[ms[k].old_fd]],
                            rw |-> Append(st.rw, [old_fd |-> temporary_fd,
                                                  new_fd |-> ms[k].new_fd])])
         ELSE CollectFrom(ms, fds, safe, k + 1, [st EXCEPT !.rw = Append(st.rw, ms[k])])

\* lines 65-69 on the Vec rw from position k on
RECURSIVE ApplyFrom(_, _, _)
ApplyFrom(rw, k, st) ==
    IF ~st.ok \/ k > Len(rw) THEN st
    ELSE IF Dup2Errno(st.t, rw[k].old_fd, rw[k].new_fd) # ""
         THEN [st EXCEPT !.ok = FALSE]
         ELSE ApplyFrom(rw, k + 1,
                        [st EXCEPT !.t = Dup2Table(st.t, rw[k].old_fd, rw[k].new_fd)])

\* lines 29-72: whether map_fds(ms) returns Ok on the table t, and the table it leaves
MapFdsOn(ms, t) ==
    IF ms = <<>> THEN [ok |-> TRUE, t |-> t, rw |-> <<>>]
    ELSE LET safe == MaxNamed(ms) + 1
             fds  == [k \in 1 .. Len(ms) |-> ms[k].new_fd]
             st   == CollectFrom(ms, fds, safe, 1, [ok |-> TRUE, t |-> t, rw |-> <<>>])
         IN  ApplyFrom(st.rw, 1, st)

\* ----------------------------------------------------------------- Init
Init ==
    /\ mappings \in SeqsUpTo(FdMapping, MaxLen)
    /\ \E open \in SUBSET Slots :
         /\ fdt = [s \in Slots |-> IF s \in open THEN s ELSE NoFile]
         /\ \E flagged \in SUBSET open : cloexec = [s \in Slots |-> s \in flagged]
    /\ fdt0 = fdt
    /\ cloexec0 = cloexec
    /\ pc = "call"
    /\ first_safe_fd = 0
    /\ new_fds = <<>>
    /\ rewritten = <<>>
    /\ i = 0
    /\ result = <<>>
    /\ calls = <<>>

\* -------------------------------------------------------------- actions
\* no early return: `max()` of no element is None and `unwrap` panics
ReturnEmptyUnwrap ==
    /\ pc = "call"
    /\ mappings = <<>>
    /\ pc' = "panicked"
    /\ UNCHANGED <<mappings, fdt, cloexec, fdt0, cloexec0, first_safe_fd, new_fds,
                   rewritten, i, result, calls>>

\* lines 30-33: nothing to do for an empty slice
ReturnEmpty ==
    /\ pc = "call"
    /\ mappings = <<>>
    /\ pc' = "returned"
    /\ result' = <<"Ok">>
    /\ UNCHANGED <<mappings, fdt, cloexec, fdt0, cloexec0, first_safe_fd, new_fds,
                   rewritten, i, calls>>

\* lines 38-47: first_safe_fd and new_fds
ComputeFirstSafeFd ==
    /\ pc = "call"
    /\ mappings # <<>>
    /\ first_safe_fd' = MaxNamed(mappings) + 1
    /\ new_fds' = [k \in 1 .. Len(mappings) |-> mappings[k].new_fd]
    /\ pc' = "phase2"
    /\ UNCHANGED <<mappings, fdt, cloexec, fdt0, cloexec0, rewritten, i, result, calls>>

\* the mapping phase 2 looks at next
Current == mappings[Len(rewritten) + 1]

\* the temporary is allocated but the mapping pushed is the original one
InsulateNoRewrite ==
    /\ pc = "phase2"
    /\ Len(rewritten) < Len(mappings)
    /\ AtRisk(new_fds, Current)
    /\ DupFdErrno(fdt, Current.old_fd, first_safe_fd) = ""
    /\ LET temporary_fd == DupFdSlot(fdt, first_safe_fd)
       IN  /\ fdt' = [fdt EXCEPT ![temporary_fd] = fdt[Current.old_fd]]
           /\ cloexec' = [cloexec EXCEPT ![temporary_fd] = DupFdFlag]
           /\ rewritten' = Append(rewritten, Current)
           /\ calls' = Append(calls, [op |-> "F_DUPFD_CLOEXEC", at |-> Len(rewritten) + 1,
                                      src |-> Current.old_fd, arg |-> first_safe_fd,
                                      ret |-> temporary_fd, errno |-> ""])
    /\ UNCHANGED <<mappings, fdt0, cloexec0, pc, first_safe_fd, new_fds, i, result>>

\* a single pass: the temporary is duplicated onto new_fd at once
InsulateAndApply ==
    /\ pc = "phase2"
    /\ Len(rewritten) < Len(mappings)
    /\ AtRisk(new_fds, Current)
    /\ DupFdErrno(fdt, Current.old_fd, first_safe_fd) = ""
    /\ LET temporary_fd == DupFdSlot(fdt, first_safe_fd)
           duplicated   == [fdt EXCEPT ![temporary_fd] = fdt[Current.old_fd]]
       IN  /\ fdt' = Dup2Table(duplicated, temporary_fd, Current.new_fd)
           /\ cloexec' = Dup2Flags([cloexec EXCEPT ![temporary_fd] = DupFdFlag],
                                   temporary_fd, Current.new_fd)
           /\ rewritten' = Append(rewritten,
                                  [old_fd |-> temporary_fd, new_fd |-> Current.new_fd])
           /\ calls' = calls \o
                  <<[op |-> "F_DUPFD_CLOEXEC", at |-> Len(rewritten) + 1,
                     src |-> Current.old_fd, arg |-> first_safe_fd,
                     ret |-> temporary_fd, errno |-> ""],
                    [op |-> "dup2", at |-> Len(rewritten) + 1,
                     src |-> temporary_fd, arg |-> Current.new_fd,
                     ret |-> Current.new_fd, errno |-> ""]>>
    /\ UNCHANGED <<mappings, fdt0, cloexec0, pc, first_safe_fd, new_fds, i, result>>

\* the temporary of an earlier mapping with the same source is used again
InsulateShared ==
    /\ pc = "phase2"
    /\ Len(rewritten) < Len(mappings)
    /\ AtRisk(new_fds, Current)
    /\ DupFdErrno(fdt, Current.old_fd, first_safe_fd) = ""
    /\ LET earlier == {k \in 1 .. Len(rewritten) : mappings[k].old_fd = Current.old_fd}
           temporary_fd == IF earlier = {} THEN DupFdSlot(fdt, first_safe_fd)
                           ELSE rewritten[CHOOSE k \in earlier : TRUE].old_fd
       IN  /\ fdt' = [fdt EXCEPT ![temporary_fd] = fdt[Current.old_fd]]
           /\ cloexec' = [cloexec EXCEPT ![temporary_fd] = DupFdFlag]
           /\ rewritten' = Append(rewritten,
                                  [old_fd |-> temporary_fd, new_fd |-> Current.new_fd])
           /\ calls' = Append(calls, [op |-> "F_DUPFD_CLOEXEC", at |-> Len(rewritten) + 1,
                                      src |-> Current.old_fd, arg |-> first_safe_fd,
                                      ret |-> temporary_fd, errno |-> ""])
    /\ UNCHANGED <<mappings, fdt0, cloexec0, pc, first_safe_fd, new_fds, i, result>>

\* lines 51-56: the source is also a destination: duplicate it to a temporary
Insulate ==
    /\ pc = "phase2"
    /\ Len(rewritten) < Len(mappings)
    /\ AtRisk(new_fds, Current)
    /\ DupFdErrno(fdt, Current.old_fd, first_safe_fd) = ""
    /\ LET temporary_fd == DupFdSlot(fdt, first_safe_fd)
       IN  /\ fdt' = [fdt EXCEPT ![temporary_fd] = fdt[Current.old_fd]]
           /\ cloexec' = [cloexec EXCEPT ![temporary_fd] = DupFdFlag]
           /\ rewritten' = Append(rewritten,
                                  [old_fd |-> temporary_fd, new_fd |-> Current.new_fd])
           /\ calls' = Append(calls, [op |-> "F_DUPFD_CLOEXEC", at |-> Len(rewritten) + 1,
                                      src |-> Current.old_fd, arg |-> first_safe_fd,
                                      ret |-> temporary_fd, errno |-> ""])
    /\ UNCHANGED <<mappings, fdt0, cloexec0, pc, first_safe_fd, new_fds, i, result>>

\* lines 52, 61-62: the duplication failed: `?` ends the collect, map_err and
\* `?` return the error
InsulateFail ==
    /\ pc = "phase2"
    /\ Len(rewritten) < Len(mappings)
    /\ AtRisk(new_fds, Current)
    /\ DupFdErrno(fdt, Current.old_fd, first_safe_fd) # ""
    /\ LET errno == DupFdErrno(fdt, Current.old_fd, first_safe_fd)
       IN  /\ result' = <<"Err", nix_to_io_error(<<"Sys", errno>>)>>
           /\ calls' = Append(calls, [op |-> "F_DUPFD_CLOEXEC", at |-> Len(rewritten) + 1,
                                      src |-> Current.old_fd, arg |-> first_safe_fd,
                                      ret |-> -1, errno |-> errno])
    /\ pc' = "returned"
    /\ UNCHANGED <<mappings, fdt, cloexec, fdt0, cloexec0, first_safe_fd, new_fds,
                   rewritten, i>>

\* a mapping without conflict is applied as soon as it is seen
KeepAndApply ==
    /\ pc = "phase2"
    /\ Len(rewritten) < Len(mappings)
    /\ ~AtRisk(new_fds, Current)
    /\ Dup2Errno(fdt, Current.old_fd, Current.new_fd) = ""
    /\ fdt' = Dup2Table(fdt, Current.old_fd, Current.new_fd)
    /\ cloexec' = Dup2Flags(cloexec, Current.old_fd, Current.new_fd)
    /\ rewritten' = Append(rewritten, Current)
    /\ calls' = Append(calls, [op |-> "dup2", at |-> Len(rewritten) + 1,
                               src |-> Current.old_fd, arg |-> Current.new_fd,
                               ret |-> Current.new_fd, errno |-> ""])
    /\ UNCHANGED <<mappings, fdt0, cloexec0, pc, first_safe_fd, new_fds, i, result>>

\* lines 57-59: the mapping is kept as it is
Keep ==
    /\ pc = "phase2"
    /\ Len(rewritten) < Len(mappings)
    /\ ~AtRisk(new_fds, Current)
    /\ rewritten' = Append(rewritten, Current)
    /\ UNCHANGED <<mappings, fdt, cloexec, fdt0, cloexec0, pc, first_safe_fd, new_fds,
                   i, result, calls>>

\* lines 61-65: the collect is complete, the loop over the new Vec starts
Collected ==
    /\ pc = "phase2"
    /\ Len(rewritten) = Len(mappings)
    /\ pc' = "phase3"
    /\ UNCHANGED <<mappings, fdt, cloexec, fdt0, cloexec0, first_safe_fd, new_fds,
                   rewritten, i, result, calls>>

\* the new Vec is walked from its end
Next3Reversed == rewritten[Len(rewritten) - i]

\* the mapping the loop of phase 3 is at
Next3 == rewritten[i + 1]

\* lines 65-69: one turn of the loop, dup2 succeeded
Apply ==
    /\ pc = "phase3"
    /\ i < Len(rewritten)
    /\ Dup2Errno(fdt, Next3.old_fd, Next3.new_fd) = ""
    /\ fdt' = Dup2Table(fdt, Next3.old_fd, Next3.new_fd)
    /\ cloexec' = Dup2Flags(cloexec, Next3.old_fd, Next3.new_fd)
    /\ i' = i + 1
    /\ calls' = Append(calls, [op |-> "dup2", at |-> i + 1,
                               src |-> Next3.old_fd, arg |-> Next3.new_fd,
                               ret |-> Next3.new_fd, errno |-> ""])
    /\ UNCHANGED <<mappings, fdt0, cloexec0, pc, first_safe_fd, new_fds, rewritten,
                   result>>

\* the failed dup2 is tried again
ApplyFailRetry ==
    /\ pc = "phase3"
    /\ i < Len(rewritten)
    /\ Dup2Errno(fdt, Next3.old_fd, Next3.new_fd) # ""
    /\ calls' = Append(calls, [op |-> "dup2", at |-> i + 1,
                               src |-> Next3.old_fd, arg |-> Next3.new_fd,
                               ret |-> -1, errno |-> Dup2Errno(fdt, Next3.old_fd, Next3.new_fd)])
    /\ UNCHANGED <<mappings, fdt, cloexec, fdt0, cloexec0, pc, first_safe_fd, new_fds,
                   rewritten, i, result>>

\* line 68: dup2 failed: map_err and `?` return the error
ApplyFail ==
    /\ pc = "phase3"
    /\ i < Len(rewritten)
    /\ Dup2Errno(fdt, Next3.old_fd, Next3.new_fd) # ""
    /\ LET errno == Dup2Errno(fdt, Next3.old_fd, Next3.new_fd)
       IN  /\ result' = <<"Err", nix_to_io_error(<<"Sys", errno>>)>>
           /\ calls' = Append(calls, [op |-> "dup2", at |-> i + 1,
                                      src |-> Next3.old_fd, arg |-> Next3.new_fd,
                                      ret |-> -1, errno |-> errno])
    /\ pc' = "returned"
    /\ UNCHANGED <<mappings, fdt, cloexec, fdt0, cloexec0, first_safe_fd, new_fds,
                   rewritten, i>>

\* line 71
ReturnOk ==
    /\ pc = "phase3"
    /\ i = Len(rewritten)
    /\ pc' = "returned"
    /\ result' = <<"Ok">>
    /\ UNCHANGED <<mappings, fdt, cloexec, fdt0, cloexec0, first_safe_fd, new_fds,
                   rewritten, i, calls>>

Next ==
    \/ ReturnEmpty
    \/ ComputeFirstSafeFd
    \/ Insulate
    \/ InsulateFail
    \/ Keep
    \/ Collected
    \/ Apply
    \/ ApplyFail
    \/ ReturnOk

Spec == Init /\ [][Next]_vars

\* map_fds runs to its return: nothing suspends it (single-threaded, synchronous)
FairSpec == Spec /\ WF_vars(Next)

TypeOK ==
    /\ pc \in {"call", "phase2", "phase3", "returned"}
    /\ fdt \in [Slots -> Slots \cup {NoFile}]
    /\ cloexec \in [Slots -> BOOLEAN]

\* ------------------------------------------------- vocabulary of the claims
Positions == 1 .. Len(mappings)

ReturnedOk == pc = "returned" /\ result = <<"Ok">>

ReturnedErr == pc = "returned" /\ Len(result) = 2 /\ result[1] = "Err"

\* the descriptors the caller mentioned
Named == {mappings[k].old_fd : k \in Positions} \cup {mappings[k].new_fd : k \in Positions}

DistinctNew == \A j, k \in Positions : j # k => mappings[j].new_fd # mappings[k].new_fd

AllOldOpen == \A k \in Positions : IsOpen(fdt0, mappings[k].old_fd)

\* the successful scratch duplications so far
ScratchCalls ==
    {k \in 1 .. Len(calls) : calls[k].op = "F_DUPFD_CLOEXEC" /\ calls[k].errno = ""}

ScratchFds == {calls[k].ret : k \in ScratchCalls}

\* the descriptor table after an image replacement: FD_CLOEXEC descriptors are closed
AfterExec == [s \in Slots |-> IF cloexec[s] THEN NoFile ELSE fdt[s]]

\* ---------------------------------------------------------------- claims
\* C1: when map_fds returns Ok on mappings with pairwise distinct new_fd and
\* open old_fd, every new_fd refers to what its old_fd referred to at the
\* time of the call, for all mappings at once.
SimultaneousRelocation ==
    (ReturnedOk /\ DistinctNew /\ AllOldOpen)
        => \A k \in Positions : fdt[mappings[k].new_fd] = fdt0[mappings[k].old_fd]

\* a 3-cycle has been relocated
SimultaneousRelocationWitness ==
    /\ ReturnedOk
    /\ mappings = <<[old_fd |-> 0, new_fd |-> 1], [old_fd |-> 1, new_fd |-> 2],
                    [old_fd |-> 2, new_fd |-> 0]>>
    /\ fdt[1] = 0 /\ fdt[2] = 1 /\ fdt[0] = 2

\* C2: when map_fds returns Ok, every new_fd is open and has no FD_CLOEXEC,
\* also for a mapping with old_fd = new_fd and for a source that carried it.
DestinationsSurviveExec ==
    ReturnedOk
        => \A k \in Positions : /\ IsOpen(fdt, mappings[k].new_fd)
                                 /\ ~cloexec[mappings[k].new_fd]
                                 /\ AfterExec[mappings[k].new_fd] = fdt[mappings[k].new_fd]

\* a mapping of a close-on-exec descriptor onto itself has been applied
DestinationsSurviveExecWitness ==
    /\ ReturnedOk
    /\ \E k \in Positions : /\ mappings[k].old_fd = mappings[k].new_fd
                              /\ cloexec0[mappings[k].old_fd]
                              /\ ~cloexec[mappings[k].new_fd]

\* C3: a scratch descriptor is open, close-on-exec and refers to what it was
\* duplicated from, from its allocation on; once map_fds has returned, an
\* image replacement leaves no scratch descriptor open.
ScratchNeverLeaks ==
    /\ \A k \in ScratchCalls : /\ IsOpen(fdt, calls[k].ret)
                                 /\ cloexec[calls[k].ret]
                                 /\ fdt[calls[k].ret] = fdt0[calls[k].src]
    /\ pc = "returned" => \A s \in ScratchFds : AfterExec[s] = NoFile

\* map_fds returned Ok with two scratch descriptors allocated
ScratchNeverLeaksWitness ==
    ReturnedOk /\ Cardinality(ScratchFds) >= 2

\* C4: the threshold is 1 + the largest descriptor named, and every scratch
\* descriptor is greater than every descriptor named.
ThresholdCorrect ==
    (mappings # <<>> /\ pc # "call")
        => /\ \A fd \in Named : first_safe_fd > fd
           /\ first_safe_fd - 1 \in Named
           /\ \A s \in ScratchFds : \A fd \in Named : s > fd

\* a scratch descriptor was allocated above an occupied slot at the threshold,
\* with a threshold below the largest nameable descriptor
ThresholdCorrectWitness ==
    /\ pc = "returned"
    /\ first_safe_fd <= MaxFd
    /\ \E s \in ScratchFds : s > first_safe_fd

\* the step that failed, if any: a call that returned an errno
FailedCalls == {k \in 1 .. Len(calls) : calls[k].errno # ""}

\* the successful dup2 onto a descriptor that no later successful dup2 overwrote
LastDup2(k) ==
    /\ calls[k].op = "dup2"
    /\ calls[k].errno = ""
    /\ \A j \in (k + 1) .. Len(calls) :
           ~(calls[j].op = "dup2" /\ calls[j].errno = "" /\ calls[j].arg = calls[k].arg)

\* a failed step is the last step, and map_fds returned its errno as an OS
\* error; an error is returned only for a failed step; what the steps
\* before it did is still in place
FailureAbortState ==
    /\ \A k \in FailedCalls : /\ k = Len(calls)
                                /\ pc = "returned"
                                /\ result = <<"Err", <<"Os", calls[k].errno>>>>
    /\ ReturnedErr => (calls # <<>> /\ Len(calls) \in FailedCalls)
    /\ ReturnedErr => \A k \in 1 .. Len(calls) :
           /\ (k \in ScratchCalls => fdt[calls[k].ret] = fdt0[calls[k].src])
           /\ (LastDup2(k) => (/\ fdt[calls[k].arg] = fdt[calls[k].src]
                               /\ IsOpen(fdt, calls[k].arg)))
    /\ ReturnedErr => \A k \in Positions :
           k > i => ~\E j \in 1 .. Len(calls) :
                       calls[j].op = "dup2" /\ calls[j].errno = "" /\ calls[j].at = k

\* the failing step leaves the descriptor table as it was before that step
FailureAbortStep ==
    (result = <<>> /\ result' # <<>> /\ result'[1] = "Err")
        => (fdt' = fdt /\ cloexec' = cloexec /\ Len(calls') = Len(calls) + 1)

\* C5: a failing duplication step ends map_fds with the OS error of that
\* step: no step follows it, the descriptors of the later mappings are as
\* they were before that step, and nothing done before is rolled back.
FailureAbort == []FailureAbortState /\ [][FailureAbortStep]_vars

\* the second of three dup2 failed after the first had replaced its destination
FailureAbortWitness ==
    /\ ReturnedErr
    /\ Len(mappings) = 3
    /\ calls[Len(calls)].op = "dup2"
    /\ calls[Len(calls)].at = 2
    /\ fdt[mappings[1].new_fd] # fdt0[mappings[1].new_fd]
    /\ fdt[mappings[3].new_fd] = fdt0[mappings[3].new_fd]
    /\ IsOpen(fdt0, mappings[3].old_fd)

\* C6: on an empty slice map_fds returns Ok, computes no threshold, calls no
\* primitive and leaves the descriptor table exactly as it was.
EmptyIdentity ==
    mappings = <<>>
        => /\ pc \in {"call", "returned"}
           /\ first_safe_fd = 0
           /\ new_fds = <<>>
           /\ calls = <<>>
           /\ fdt = fdt0
           /\ cloexec = cloexec0
           /\ pc = "returned" => result = <<"Ok">>

\* map_fds returned from an empty slice with descriptors open
EmptyIdentityWitness ==
    /\ mappings = <<>>
    /\ ReturnedOk
    /\ \E s \in Slots : IsOpen(fdt, s) /\ cloexec[s]
    /\ \E s \in Slots : IsOpen(fdt, s) /\ ~cloexec[s]

\* C7: a source that is the new_fd of no mapping keeps its state (open or
\* not), its open file description and its FD_CLOEXEC flag, at every step
\* and whatever map_fds returns.
SourcesUntouched ==
    \A k \in Positions :
        (\A j \in Positions : mappings[j].new_fd # mappings[k].old_fd)
            => /\ fdt[mappings[k].old_fd] = fdt0[mappings[k].old_fd]
               /\ cloexec[mappings[k].old_fd] = cloexec0[mappings[k].old_fd]

\* the chain 0 -> 1, 1 -> 2 was applied and descriptor 0 is as it was
SourcesUntouchedWitness ==
    /\ ReturnedOk
    /\ mappings = <<[old_fd |-> 0, new_fd |-> 1], [old_fd |-> 1, new_fd |-> 2]>>
    /\ cloexec0[0] /\ cloexec[0]
    /\ fdt[0] = 0 /\ fdt[1] = 0 /\ fdt[2] = 1

\* the orders of n things
Perms(n) == {p \in [1 .. n -> 1 .. n] : \A a, b \in 1 .. n : a # b => p[a] # p[b]}

Permute(s, p) == [k \in 1 .. Len(s) |-> s[p[k]]]

\* two tables agree on the descriptors the caller mentioned
SameOnNamed(t, u) == \A fd \in Named : t[fd] = u[fd]

\* C8: with pairwise distinct new_fd and open old_fd, what the named
\* descriptors refer to after a successful map_fds is the same for every
\* permutation of the input, and for every order of the dup2 steps of phase 3.
OrderIrrelevant ==
    /\ (ReturnedOk /\ DistinctNew /\ AllOldOpen)
           => \A p \in Perms(Len(mappings)) :
                  LET other == MapFdsOn(Permute(mappings, p), fdt0)
                  IN  other.ok /\ SameOnNamed(other.t, fdt)
    /\ (pc = "phase3" /\ i = 0 /\ DistinctNew /\ AllOldOpen)
           => \A p \in Perms(Len(rewritten)) :
                  LET inOrder == ApplyFrom(rewritten, 1, [ok |-> TRUE, t |-> fdt])
                      other   == ApplyFrom(Permute(rewritten, p), 1, [ok |-> TRUE, t |-> fdt])
                  IN  other.ok /\ inOrder.ok /\ SameOnNamed(other.t, inOrder.t)

\* a 3-cycle was applied from a close-on-exec descriptor, and applying it
\* rotated gives descriptor 0 the same open file description
OrderIrrelevantWitness ==
    /\ ReturnedOk
    /\ mappings = <<[old_fd |-> 0, new_fd |-> 1], [old_fd |-> 1, new_fd |-> 2],
                    [old_fd |-> 2, new_fd |-> 0]>>
    /\ cloexec0[0]
    /\ MapFdsOn(Permute(mappings, <<3, 1, 2>>), fdt0).t[0] = fdt[0]
    /\ fdt[0] = 2

\* the calls of one primitive made for the mapping at position k
CallsFor(op, k) == {j \in 1 .. Len(calls) : calls[j].op = op /\ calls[j].at = k}

\* each primitive is called at most once per mapping, the scratch duplication
\* before the dup2 of the same mapping, and what map_fds returns is Ok or an error
AtMostOnce ==
    /\ \A j \in 1 .. Len(calls) : calls[j].at \in Positions
    /\ \A k \in Positions : /\ Cardinality(CallsFor("F_DUPFD_CLOEXEC", k)) <= 1
                              /\ Cardinality(CallsFor("dup2", k)) <= 1
    /\ Len(calls) <= 2 * Len(mappings)
    /\ pc = "returned" => (ReturnedOk \/ ReturnedErr)

\* C9: on every mapping sequence map_fds returns, Ok or an error, having
\* called the scratch duplication at most once per mapping and dup2 at most
\* once per mapping.
NoHang == <>(pc = "returned") /\ []AtMostOnce

\* map_fds returned after two calls per mapping, on mappings that repeat a
\* new_fd, map a descriptor onto itself and name a closed descriptor
NoHangWitness ==
    /\ pc = "returned"
    /\ Len(mappings) = 3
    /\ Len(calls) = 6
    /\ ~DistinctNew
    /\ \E k \in Positions : mappings[k].old_fd = mappings[k].new_fd
    /\ \E fd \in Named : ~IsOpen(fdt0, fd)

\* phase 2 has dealt with the mapping at position k
Collecting(k) == k <= Len(rewritten) \/ CallsFor("F_DUPFD_CLOEXEC", k) # {}

\* the mapping at position k was rewritten to read from a scratch descriptor
Rewritten(k) ==
    /\ k <= Len(rewritten)
    /\ rewritten[k].old_fd # mappings[k].old_fd
    /\ rewritten[k].old_fd \in ScratchFds

\* what phase 2 did with position k, given whether its old_fd is at risk
Phase2Rule(k, atRisk) ==
    /\ (CallsFor("F_DUPFD_CLOEXEC", k) # {}) <=> atRisk
    /\ k <= Len(rewritten)
           => /\ Rewritten(k) <=> atRisk
              /\ ~atRisk => rewritten[k] = mappings[k]
              /\ rewritten[k].new_fd = mappings[k].new_fd

\* C10 as claimed: a mapping's old_fd is duplicated to a scratch descriptor,
\* and the mapping rewritten, if and only if a mapping at a different position
\* has it as new_fd.
AtRiskByOther ==
    \A k \in Positions :
        k <= Len(rewritten)
            => (Rewritten(k)
                  <=> \E j \in Positions : j # k /\ mappings[j].new_fd = mappings[k].old_fd)

\* C10: a mapping's old_fd is duplicated to a scratch descriptor, and the
\* mapping rewritten to read from it, if and only if a mapping at any
\* position, its own included, has it as new_fd; other mappings are left as
\* they are and cause no scratch allocation.
AtRiskByAny ==
    \A k \in Positions :
        Collecting(k)
            => Phase2Rule(k, \E j \in Positions : mappings[j].new_fd = mappings[k].old_fd)

\* phase 2 is over: one mapping was rewritten because another one targets its
\* source, one because it targets its own source, and one was left alone
AtRiskByAnyWitness ==
    /\ pc = "phase3"
    /\ mappings = <<[old_fd |-> 0, new_fd |-> 0], [old_fd |-> 1, new_fd |-> 2],
                    [old_fd |-> 2, new_fd |-> 1]>>
    /\ Rewritten(1) /\ Rewritten(2) /\ Rewritten(3)

\* phase 2 has run to its end without an error
Phase2Complete == pc # "call" /\ mappings # <<>> /\ Len(rewritten) = Len(mappings)

\* the successful dup2 calls so far
Dup2Calls == {j \in 1 .. Len(calls) : calls[j].op = "dup2" /\ calls[j].errno = ""}

\* C11: once phase 2 has completed, no old_fd of the rewritten list is the
\* new_fd of any of its mappings, itself included; so no dup2 of phase 3
\* overwrites a descriptor that the same or a later step of phase 3 reads.
InsulationInvariant ==
    Phase2Complete
        => /\ \A j, k \in 1 .. Len(rewritten) :
                  rewritten[j].old_fd # rewritten[k].new_fd
           /\ \A c \in Dup2Calls : \A k \in calls[c].at .. Len(rewritten) :
                  /\ rewritten[k].old_fd # calls[c].arg
                  /\ fdt[rewritten[k].old_fd] = fdt0[mappings[k].old_fd]

\* phase 3 is under way on a swap together with a second mapping onto one
\* of its descriptors
InsulationInvariantWitness ==
    /\ pc = "phase3"
    /\ i = 2
    /\ mappings = <<[old_fd |-> 0, new_fd |-> 1], [old_fd |-> 1, new_fd |-> 0],
                    [old_fd |-> 2, new_fd |-> 0]>>
    /\ Cardinality(ScratchFds) = 2

\* C12: every scratch duplication precedes the first dup2, and while phase 2
\* is not over no descriptor the caller named has been overwritten or closed.
TwoPhaseOrdering ==
    /\ \A j, k \in 1 .. Len(calls) :
           (calls[j].op = "dup2" /\ calls[k].op = "F_DUPFD_CLOEXEC") => k < j
    /\ (pc \in {"call", "phase2"} \/ Len(rewritten) < Len(mappings))
           => /\ \A c \in 1 .. Len(calls) : calls[c].op # "dup2"
              /\ \A fd \in Named : fdt[fd] = fdt0[fd] /\ cloexec[fd] = cloexec0[fd]

\* three scratch duplications were followed by three dup2
TwoPhaseOrderingWitness ==
    /\ ReturnedOk
    /\ Len(calls) = 6
    /\ \A k \in 1 .. 3 : calls[k].op = "F_DUPFD_CLOEXEC" /\ calls[k + 3].op = "dup2"
    /\ \E fd \in Named : fdt[fd] # fdt0[fd]

\* the mapping at position k is the last one of the sequence onto its new_fd
LastOnto(k) == \A j \in Positions : j > k => mappings[j].new_fd # mappings[k].new_fd

\* C13: when a new_fd is repeated and every old_fd is open, after a
\* successful map_fds it refers to what the old_fd of the last mapping onto
\* it referred to at the time of the call, and every mapping with a new_fd
\* of its own is relocated.
LastAppliedWins ==
    (ReturnedOk /\ ~DistinctNew /\ AllOldOpen)
        => \A k \in Positions :
               LastOnto(k) => fdt[mappings[k].new_fd] = fdt0[mappings[k].old_fd]

\* descriptor 0 was the target of two mappings, the first of them part of a
\* swap: it refers to the source of the second
LastAppliedWinsWitness ==
    /\ ReturnedOk
    /\ mappings = <<[old_fd |-> 1, new_fd |-> 0], [old_fd |-> 0, new_fd |-> 1],
                    [old_fd |-> 2, new_fd |-> 0]>>
    /\ fdt[0] = 2 /\ fdt[1] = 0

\* a step leaves every open descriptor that is no mapping's new_fd as it is
PreservesUnmentioned ==
    \A s \in Slots :
        (IsOpen(fdt, s) /\ \A k \in Positions : mappings[k].new_fd # s)
            => (fdt'[s] = fdt[s] /\ cloexec'[s] = cloexec[s])

\* what was open at the call and is no mapping's new_fd is as it was, and
\* the scratch descriptors are on slots that were free at the call
UnmentionedAsAtCall ==
    /\ \A s \in Slots :
           (IsOpen(fdt0, s) /\ \A k \in Positions : mappings[k].new_fd # s)
               => (fdt[s] = fdt0[s] /\ cloexec[s] = cloexec0[s])
    /\ \A s \in ScratchFds : ~IsOpen(fdt0, s)

\* C14: a descriptor open before the call that is the new_fd of no mapping,
\* at or above the threshold included, keeps its open file description and
\* its flag whatever map_fds returns; a scratch duplicate is placed on a
\* slot that is free when it is allocated.
UnmentionedPreserved == []UnmentionedAsAtCall /\ [][PreservesUnmentioned]_vars

\* a scratch descriptor was allocated above an open descriptor at the
\* threshold, which is still as it was
UnmentionedPreservedWitness ==
    /\ pc = "returned"
    /\ IsOpen(fdt0, first_safe_fd)
    /\ cloexec0[first_safe_fd]
    /\ fdt[first_safe_fd] = first_safe_fd
    /\ cloexec[first_safe_fd]
    /\ \E s \in ScratchFds : s > first_safe_fd

\* map_fds returned the error of a scratch duplication
FailedInPhase2 ==
    /\ ReturnedErr
    /\ calls # <<>>
    /\ calls[Len(calls)].op = "F_DUPFD_CLOEXEC"

\* C15: when a scratch duplication fails, map_fds returns the error without
\* any dup2 made: every named descriptor is as it was before the call, and
\* the table differs from it only by the close-on-exec scratch descriptors
\* allocated before the failure.
Phase2FailureHarmless ==
    FailedInPhase2
        => /\ Dup2Calls = {}
           /\ \A c \in 1 .. Len(calls) : calls[c].op = "F_DUPFD_CLOEXEC"
           /\ \A fd \in Named : fdt[fd] = fdt0[fd] /\ cloexec[fd] = cloexec0[fd]
           /\ \A s \in Slots \ ScratchFds : fdt[s] = fdt0[s] /\ cloexec[s] = cloexec0[s]
           /\ \A s \in ScratchFds : ~IsOpen(fdt0, s) /\ IsOpen(fdt, s) /\ cloexec[s]

\* the third scratch duplication failed after a mapping was kept and a
\* scratch descriptor allocated
Phase2FailureHarmlessWitness ==
    /\ FailedInPhase2
    /\ Len(mappings) = 3
    /\ Len(rewritten) = 2
    /\ Cardinality(ScratchFds) = 1
    /\ \E fd \in Named : IsOpen(fdt0, fd) /\ cloexec0[fd]

\* the positions whose old_fd occurs among the new_fd values
AtRiskPositions ==
    {k \in Positions : \E j \in Positions : mappings[j].new_fd = mappings[k].old_fd}

\* the descriptors open now that were not open at the call and that the
\* caller did not name
LeftOpen == {s \in Slots : IsOpen(fdt, s) /\ ~IsOpen(fdt0, s) /\ s \notin Named}

\* C16: after a successful map_fds the scratch descriptors left open are as
\* many as the positions whose old_fd occurs among the new_fd values: each
\* such position has a scratch descriptor of its own, which refers to what
\* its old_fd referred to at the time of the call.
ScratchAccounting ==
    ReturnedOk
        => /\ Cardinality(LeftOpen) = Cardinality(AtRiskPositions)
           /\ LeftOpen = ScratchFds
           /\ \A k \in AtRiskPositions : /\ rewritten[k].old_fd \in LeftOpen
                                          /\ fdt[rewritten[k].old_fd] = fdt0[mappings[k].old_fd]
           /\ \A j, k \in AtRiskPositions :
                  j # k => rewritten[j].old_fd # rewritten[k].old_fd

\* one at-risk source fanned out to two targets has two scratch descriptors
ScratchAccountingWitness ==
    /\ ReturnedOk
    /\ mappings = <<[old_fd |-> 0, new_fd |-> 1], [old_fd |-> 0, new_fd |-> 2],
                    [old_fd |-> 2, new_fd |-> 0]>>
    /\ Cardinality(LeftOpen) = 3
    /\ rewritten[1].old_fd # rewritten[2].old_fd
    /\ fdt[rewritten[1].old_fd] = 0 /\ fdt[rewritten[2].old_fd] = 0
====
